---- MODULE Spec2Model ----
(***************************************************************************)
(* notify_push: the event pipeline of src/main.rs and the access cache of  *)
(* src/storage_mapping.rs.                                                 *)
(*                                                                         *)
(* Processes: the dispatcher task `listen`, one `user_connected` task and  *)
(* one outbound pump per accepted websocket, and mapping_test requests.    *)
(* The bus, the database, the clock, the websocket peers and the           *)
(* credential verifier are the environment.                                *)
(***************************************************************************)
EXTENDS Integers, Sequences, FiniteSets, TLC

\* ------------------------------------------------------------------ bounds
MaxEvents == 2
MaxRequests == 1
MaxWindows == 1
MaxFrames == 1

\* ------------------------------------------------------- program constants
TTL == 300

\* ------------------------------------------------------------ input domains
Users == {"alice", "bob"}
Texts == {"alice", "pw"}
Storages == {7, 42}
Sessions == {1, 2}
Cookies == {7, 12345}
Callers == {"listen", "mapping_test"}

\* Strings that take part in starts_with are sequences of bytes.
EmptyPath == <<>>
Paths == {<<"a", "b">>, <<"b">>}

\* Instants the clock can show: around each multiple of the TTL.
Instants == {t \in {k * TTL + j : k \in 0..MaxWindows, j \in {-1, 0, 1}} : t >= 0}

Row(u, r) == [user |-> u, root |-> r]

\* Contents the mounts/filecache join can have for one storage.
DbLists ==
  { << Row("alice", <<>>), Row("bob", <<"a">>) >>,
    << Row("alice", <<"a">>), Row("alice", <<"a", "b">>) >> }

NoEntry == [none |-> TRUE]

NOTIFY == <<"notify_storage_update">>

NoFrame == [body |-> <<>>, ev |-> 0]

\* ------------------------------------------------------------ pure helpers
\* (fault: the test turned around, root.starts_with(path))
starts_with_reversed(path, root) ==
  /\ Len(path) <= Len(root)
  /\ SubSeq(root, 1, Len(path)) = path

\* (fault: equality instead of a prefix test)
starts_with_exact(path, root) == path = root

\* str::starts_with on byte strings
starts_with(path, root) ==
  /\ Len(root) <= Len(path)
  /\ SubSeq(path, 1, Len(root)) = root

RECURSIVE filter_map_dedup(_, _)
\* (fault: a user is yielded once however many rows match)
filter_map_dedup(access, path) ==
  IF access = <<>> THEN <<>>
  ELSE LET rest == filter_map_dedup(Tail(access), path)
       IN IF /\ starts_with(path, Head(access).root)
             /\ Head(access).user \notin {rest[i] : i \in DOMAIN rest}
            THEN <<Head(access).user>> \o rest
            ELSE rest

RECURSIVE filter_map(_, _)
\* storage_mapping.rs 74-85: the users of the rows whose root prefixes path,
\* in row order, duplicates kept
filter_map(access, path) ==
  IF access = <<>> THEN <<>>
  ELSE LET rest == filter_map(Tail(access), path)
       IN IF starts_with(path, Head(access).root)
            THEN <<Head(access).user>> \o rest
            ELSE rest

\* CachedAccess::new
CachedAccess_new(access, instant) ==
  [access |-> access, valid_till |-> instant + TTL]

\* (the test as the name promises it: valid until valid_till)
is_valid_until(cached, instant) == instant < cached.valid_till

\* CachedAccess::is_valid
is_valid(cached, instant) == cached.valid_till < instant

Range(f) == {f[i] : i \in DOMAIN f}

Digits == <<"0", "1", "2", "3", "4", "5", "6", "7", "8", "9">>

RECURSIVE to_string(_)
\* u32/usize::to_string: the decimal digits, most significant first
to_string(n) ==
  IF n < 10 THEN <<Digits[n + 1]>>
  ELSE to_string(n \div 10) \o <<Digits[(n % 10) + 1]>>

\* ------------------------------------------------------------ configuration
\* Option<T>: None, or Some(x)
None == <<>>
Some(x) == <<x>>

\* Option::or
Option_or(self, optb) == IF self # None THEN self ELSE optb

\* Permission strings, as sequences of characters.
CliPermissions ==
  { <<"0", "6", "6", "0">>, <<"6", "6", "0">>, <<"0", "6", "6">>,
    <<"7", "7", "7", "7">>, <<"0", "8", "8", "8">>, <<"+", "0", "6", "6">>,
    <<"0", "0", "6", "6", "0">>, <<>> }

\* What the command line can carry (struct Opt, config.rs 20-84).
Opts ==
  [socket_permissions : {None} \cup {Some(p) : p \in CliPermissions},
   redis_url : {<<>>, <<"redis://cli">>},
   allow_self_signed : BOOLEAN,
   tls_cert : {None, Some("cli.crt")},
   tls_key : {None, Some("cli.key")}]

\* What the environment can carry (the variables read at config.rs 230-254).
Envs ==
  [SOCKET_PERMISSIONS : {None, Some(<<"0", "6", "0", "0">>)},
   REDIS_URL : {None, Some("redis://env")},
   ALLOW_SELF_SIGNED : {None, Some("true"), Some("false")},
   TLS_CERT : {None, Some("env.crt")},
   TLS_KEY : {None, Some("env.key")}]

\* What parse_config_file can return: the upstream application's file names
\* its bus, and none of the listener options.
FileConfigs ==
  [socket_permissions : {None},
   redis : {<<>>, <<"redis://file">>},
   allow_self_signed : {None},
   tls : {None}]

NoOpt ==
  [socket_permissions |-> None, redis_url |-> <<>>, allow_self_signed |-> FALSE,
   tls_cert |-> None, tls_key |-> None]

NoEnv ==
  [SOCKET_PERMISSIONS |-> None, REDIS_URL |-> None, ALLOW_SELF_SIGNED |-> None,
   TLS_CERT |-> None, TLS_KEY |-> None]

\* PartialConfig::default()
PartialConfig_default ==
  [socket_permissions |-> None, redis |-> <<>>, allow_self_signed |-> None,
   tls |-> None]

\* lines 281-285 and 248-252: a certificate and a key make a TlsConfig
TlsConfig(cert, key) ==
  IF cert # None /\ key # None
    THEN Some([cert |-> cert[1], key |-> key[1]])
    ELSE None

\* PartialConfig::from_opt
PartialConfig_from_opt(o) ==
  [socket_permissions |-> o.socket_permissions,
   redis |-> o.redis_url,
   allow_self_signed |-> IF o.allow_self_signed THEN Some(TRUE) ELSE None,
   tls |-> TlsConfig(o.tls_cert, o.tls_key)]

\* PartialConfig::from_env
PartialConfig_from_env(e) ==
  [socket_permissions |-> e.SOCKET_PERMISSIONS,
   redis |-> e.REDIS_URL,
   allow_self_signed |->
     IF e.ALLOW_SELF_SIGNED = None THEN None
     ELSE Some(e.ALLOW_SELF_SIGNED[1] = "true"),
   tls |-> TlsConfig(e.TLS_CERT, e.TLS_KEY)]

\* PartialConfig::merge
merge(self, fallback) ==
  [socket_permissions |->
     Option_or(self.socket_permissions, fallback.socket_permissions),
   redis |-> IF self.redis = <<>> THEN fallback.redis ELSE self.redis,
   allow_self_signed |->
     Option_or(self.allow_self_signed, fallback.allow_self_signed),
   tls |-> Option_or(self.tls, fallback.tls)]

DEFAULT_PERMISSIONS == 438

RECURSIVE from_digits(_, _, _)
\* the digit loop of from_str_radix: -1 for an invalid digit (the strings
\* of CliPermissions are too short to overflow a u32)
from_digits(src, radix, acc) ==
  IF src = <<>> THEN acc
  ELSE LET ds == {d \in 0..(radix - 1) : Digits[d + 1] = Head(src)}
       IN IF ds = {} THEN -1
          ELSE from_digits(Tail(src), radix,
                           acc * radix + (CHOOSE d \in ds : TRUE))

\* u32::from_str_radix: an optional "+", then at least one digit
from_str_radix(src, radix) ==
  LET body == IF src # <<>> /\ Head(src) = "+" THEN Tail(src) ELSE src
      v == from_digits(body, radix, 0)
  IN IF src = <<>> THEN [ok |-> FALSE, value |-> 0, kind |-> "Empty"]
     ELSE IF body = <<>> \/ v = -1
            THEN [ok |-> FALSE, value |-> 0, kind |-> "InvalidDigit"]
     ELSE [ok |-> TRUE, value |-> v, kind |-> ""]

\* config.rs 137-143: the closure applied to the permission string
socket_permissions(perm) ==
  IF Len(perm) # 4 /\ ~(perm # <<>> /\ Head(perm) = "0")
    THEN [ok |-> FALSE, value |-> 0, kind |-> "SocketPermissions"]
    ELSE from_str_radix(perm, 8)

NotLoaded == [state |-> "none", error |-> "", value |-> PartialConfig_default]

\* Config::try_from(PartialConfig), with the database and the upstream url
\* given and a socket path configured
try_from(c) ==
  LET perm == IF c.socket_permissions = None
                THEN [ok |-> TRUE, value |-> DEFAULT_PERMISSIONS, kind |-> ""]
                ELSE socket_permissions(c.socket_permissions[1])
  IN IF ~perm.ok
       THEN [state |-> "err", error |-> "SocketPermissions",
             value |-> PartialConfig_default]
       ELSE [state |-> "ok", error |-> "",
             value |-> [socket_permissions |-> Some(perm.value),
                        redis |-> c.redis,
                        allow_self_signed |->
                          Some(IF c.allow_self_signed = None THEN FALSE
                               ELSE c.allow_self_signed[1]),
                        tls |-> c.tls]]

\* Config::from_opt, lines 196-205
resolve(o, e, f) ==
  try_from(merge(merge(PartialConfig_from_opt(o), PartialConfig_from_env(e)), f))

\* ------------------------------------------------------------------- state
VARIABLES
  now,          \* Instant::now()
  db,           \* rows of the mounts/filecache join, per storage
  cache,        \* StorageMapping.cache
  queryCount,   \* MAPPING_QUERY_COUNT
  test_cookie,  \* the AtomicU32 shared by listen and cookie_test
  lk,           \* per caller: position inside get_users_for_storage_path,
                \* its locals, and whether it holds a guard of the cache map
  requests,     \* number of mapping_test requests served so far
  answer,       \* body of the latest mapping_test response
  retry,        \* history: storages whose latest load failed, not looked up since
  stream,       \* bus messages published and not yet taken by listen
  published,    \* number of bus messages published so far
  dpc,          \* listen: position
  event,        \* listen: the message being handled
  users,        \* listen: users still to be notified for `event`
  registry,     \* ActiveConnections: set of [user, id, sink]
  nextConnId,   \* next ConnectionId to hand out
  spc,          \* per session: position in user_connected
  username,     \* per session: first text frame
  password,     \* per session: second text frame
  connection_id,\* per session: id returned by connections.add
  inbound,      \* per session: state of the inbound half of the socket
  discarded,    \* per session: frames the receive loop has thrown away
  queue,        \* per session: messages in the unbounded channel
  pump,         \* per session: state of the rx.forward task
  peer,         \* per session: the last frame written to the websocket
  opt,          \* Config::from_opt: the parsed command line (Opt)
  env,          \* Config::from_opt: the environment variables
  config_file,  \* Config::from_opt: what parse_config_file returns
  config        \* Config::from_opt: its result

cacheVars == <<now, db, cache, queryCount, lk, requests, answer, retry>>
busVars == <<stream, published>>
listenVars == <<dpc, event, users>>
regVars == <<registry, nextConnId>>
sessVars == <<spc, username, password, connection_id, inbound, discarded>>
sinkVars == <<queue, pump, peer>>
cfgVars == <<opt, env, config_file, config>>
vars ==
  <<cacheVars, busVars, listenVars, regVars, sessVars, sinkVars, test_cookie,
    cfgVars>>

IdleLookup ==
  [pc |-> "idle", storage |-> 0, path |-> <<>>, rows |-> <<>>, guard |-> FALSE]
NoEvent == [ev |-> 0, msg |-> [type |-> "None"]]

Messages ==
  {[type |-> "StorageUpdate", storage |-> s, path |-> p] : s \in Storages, p \in Paths}
  \cup {[type |-> "GroupUpdate", user |-> u] : u \in Users}
  \cup {[type |-> "ShareCreate", user |-> u] : u \in Users}
  \cup {[type |-> "TestCookie", cookie |-> c] : c \in Cookies}
  \cup {[type |-> "Err"]}

Init ==
  /\ now = 0
  /\ db = [s \in Storages |-> << Row("alice", <<>>), Row("bob", <<"a">>) >>]
  /\ cache = [s \in Storages |-> NoEntry]
  /\ queryCount = 0
  /\ test_cookie = 0
  /\ lk = [c \in Callers |-> IdleLookup]
  /\ requests = 0
  /\ answer = <<>>
  /\ retry = {}
  /\ stream = <<>>
  /\ published = 0
  /\ dpc = "subscribe"
  /\ event = NoEvent
  /\ users = <<>>
  /\ opt = NoOpt
  /\ env = NoEnv
  /\ config_file = PartialConfig_default
  /\ config = resolve(NoOpt, NoEnv, PartialConfig_default)
  /\ registry = {}
  /\ nextConnId = 0
  /\ spc = [s \in Sessions |-> "none"]
  /\ username = [s \in Sessions |-> ""]
  /\ password = [s \in Sessions |-> ""]
  /\ connection_id = [s \in Sessions |-> -1]
  /\ inbound = [s \in Sessions |-> "open"]
  /\ discarded = [s \in Sessions |-> 0]
  /\ queue = [s \in Sessions |-> <<>>]
  /\ pump = [s \in Sessions |-> "none"]
  /\ peer = [s \in Sessions |-> NoFrame]

\* ------------------------------------------------------------- environment
\* The monotonic clock advances.
Tick(I) ==
  /\ \E t \in I : t > now /\ now' = t
  /\ UNCHANGED <<db, cache, queryCount, lk, requests, answer, retry, busVars,
                 listenVars,
                 regVars, sessVars, sinkVars, test_cookie,
                 cfgVars>>

\* The upstream application changes the mounts of a storage.
DbChange(S) ==
  /\ \E s \in S, l \in DbLists :
       /\ l # db[s]
       /\ db' = [db EXCEPT ![s] = l]
  /\ UNCHANGED <<now, cache, queryCount, lk, requests, answer, retry, busVars,
                 listenVars,
                 regVars, sessVars, sinkVars, test_cookie,
                 cfgVars>>

\* The upstream application publishes a message on the bus while the
\* subscription of listen is open. Nobody looks at
\* a message before listen takes it, so its content is drawn when it is taken
\* (NextEvent); the stream holds the messages' sequence numbers.
Publish ==
  /\ dpc \notin {"subscribe", "failed", "ended"}
  /\ published < MaxEvents
  /\ stream' = Append(stream, published + 1)
  /\ published' = published + 1
  /\ UNCHANGED <<cacheVars, listenVars, regVars, sessVars, sinkVars, test_cookie,
                 cfgVars>>

\* ------------------------------------------------------ connection registry
\* sinks registered under user u
Registered(u) == {r.sink : r \in {e \in registry : e.user = u}}

\* ActiveConnections::add: a fresh id, the sink filed under the user
add(u, sink) ==
  /\ registry' = registry \cup {[user |-> u, id |-> nextConnId, sink |-> sink]}
  /\ nextConnId' = nextConnId + 1

\* ActiveConnections::remove: drops the entry if present
remove(u, id) ==
  /\ registry' = {e \in registry : ~(e.user = u /\ e.id = id)}
  /\ UNCHANGED nextConnId

\* sinks on which a send for user u succeeds: registered, receiver alive
Receivers(u) == {s \in Registered(u) : pump[s] = "running"}

\* ActiveConnections::send_to_user: enqueue on every sink of the user;
\* a send on a channel whose receiver is gone is dropped
send_to_user(u, item) ==
  queue' = [s \in Sessions |->
                 IF s \in Receivers(u) THEN Append(queue[s], item) ELSE queue[s]]

\* ------------------------------------------- get_users_for_storage_path
\* The call returns to its caller: listen walks the users (main.rs 183-191),
\* mapping_test answers the request with the number of users returned, or
\* with 0 when the call failed (main.rs 86-88).
\* (`event` lives for one iteration of the loop of listen.)
Return(c, ok, us) ==
  /\ lk' = [lk EXCEPT ![c] = IdleLookup]
  /\ IF c = "listen"
       THEN /\ dpc' = IF ok /\ us # <<>> THEN "send" ELSE "next"
            /\ users' = us
            /\ event' = IF ok /\ us # <<>> THEN event ELSE NoEvent
            /\ UNCHANGED answer
       ELSE /\ answer' = to_string(IF ok THEN Len(us) ELSE 0)
            /\ UNCHANGED listenVars

\* (fault: the guard of cache.get outlives the test, as the scrutinee of a
\* `match` would, and is held while the load is awaited)
Check_holding(c) ==
  /\ lk[c].pc = "check"
  /\ LET cached == cache[lk[c].storage]
         hit == cached # NoEntry /\ is_valid(cached, now)
     IN lk' = [lk EXCEPT ![c].pc = IF hit THEN "filter" ELSE "load",
                         ![c].guard = (cached # NoEntry)]
  /\ retry' = retry \ {lk[c].storage}
  /\ UNCHANGED <<now, db, cache, queryCount, requests, answer, busVars,
                 listenVars,
                 regVars, sessVars, sinkVars, test_cookie,
                 cfgVars>>

\* lines 60-68: cache.get and is_valid. On a hit the guard returned by get
\* is kept in `cached`; otherwise the closure drops it and the call goes on
\* to the database without a guard.
Check(c) ==
  /\ lk[c].pc = "check"
  /\ LET cached == cache[lk[c].storage]
         hit == cached # NoEntry /\ is_valid(cached, now)
     IN lk' = [lk EXCEPT ![c].pc = IF hit THEN "filter" ELSE "load",
                         ![c].guard = hit]
  /\ retry' = retry \ {lk[c].storage}
  /\ UNCHANGED <<now, db, cache, queryCount, requests, answer, busVars,
                 listenVars,
                 regVars, sessVars, sinkVars, test_cookie,
                 cfgVars>>

\* load_storage_mapping, lines 90-101: the database answers the query
QueryOk(c) ==
  /\ lk[c].pc = "load"
  /\ lk' = [lk EXCEPT ![c].pc = "loaded", ![c].rows = db[lk[c].storage]]
  /\ UNCHANGED <<now, db, cache, queryCount, requests, answer, retry, busVars,
                 listenVars,
                 regVars, sessVars, sinkVars, test_cookie,
                 cfgVars>>

\* load_storage_mapping, line 101, and line 69: the query fails and the
\* error is returned to the caller
QueryErr(c) ==
  /\ lk[c].pc = "load"
  /\ Return(c, FALSE, <<>>)
  /\ retry' = retry \cup {lk[c].storage}
  /\ UNCHANGED <<now, db, cache, queryCount, requests, busVars, regVars,
                 sessVars, sinkVars, test_cookie,
                 cfgVars>>

\* (fault: an entry that is already there is kept, the first install wins)
Install_if_absent(c) ==
  /\ lk[c].pc = "loaded"
  /\ \A d \in Callers : lk[d].guard => lk[d].storage # lk[c].storage
  /\ queryCount' = queryCount + 1
  /\ cache' = IF cache[lk[c].storage] = NoEntry
                THEN [cache EXCEPT ![lk[c].storage] =
                        CachedAccess_new(lk[c].rows, now)]
                ELSE cache
  /\ lk' = [lk EXCEPT ![c].pc = "get"]
  /\ retry' = retry \ {lk[c].storage}
  /\ UNCHANGED <<now, db, requests, answer, busVars, listenVars, regVars,
                 sessVars, sinkVars, test_cookie, cfgVars>>

\* lines 102 and 71: count the query, install the entry. DashMap::insert
\* takes the write lock of the entry's shard: it waits while a guard on that
\* entry is held.
Install(c) ==
  /\ lk[c].pc = "loaded"
  /\ \A d \in Callers : lk[d].guard => lk[d].storage # lk[c].storage
  /\ queryCount' = queryCount + 1
  /\ cache' = [cache EXCEPT ![lk[c].storage] = CachedAccess_new(lk[c].rows, now)]
  /\ lk' = [lk EXCEPT ![c].pc = "get"]
  /\ retry' = retry \ {lk[c].storage}
  /\ UNCHANGED <<now, db, requests, answer, busVars, listenVars, regVars, sessVars,
                 sinkVars, test_cookie,
                 cfgVars>>

\* line 72: cache.get(&storage).unwrap() takes a guard on the entry; the
\* unwrap panics when the entry is missing
Get(c) ==
  /\ lk[c].pc = "get"
  /\ cache[lk[c].storage] # NoEntry
  /\ lk' = [lk EXCEPT ![c].pc = "filter", ![c].guard = TRUE]
  /\ UNCHANGED <<now, db, cache, queryCount, requests, answer, retry, busVars,
                 listenVars, regVars, sessVars, sinkVars, test_cookie,
                 cfgVars>>

\* lines 74-85: filter the list behind the guard, collect, return; the guard
\* is dropped with the return
Filter(c) ==
  /\ lk[c].pc = "filter"
  /\ Return(c, TRUE, filter_map(cache[lk[c].storage].access, lk[c].path))
  /\ UNCHANGED <<now, db, cache, queryCount, requests, retry, busVars, regVars,
                 sessVars, sinkVars, test_cookie,
                 cfgVars>>

\* main.rs 81-90: a mapping_test request calls the lookup with path ""
MappingTest(S) ==
  /\ lk["mapping_test"].pc = "idle"
  /\ requests < MaxRequests
  /\ \E s \in S :
       lk' = [lk EXCEPT !["mapping_test"] =
                [pc |-> "check", storage |-> s, path |-> EmptyPath,
                 rows |-> <<>>, guard |-> FALSE]]
  /\ requests' = requests + 1
  /\ UNCHANGED <<now, db, cache, queryCount, answer, retry, busVars, listenVars, regVars,
                 sessVars, sinkVars, test_cookie,
                 cfgVars>>

\* -------------------------------------------------------------------- listen
\* line 172: event::subscribe
Subscribe ==
  /\ dpc = "subscribe"
  /\ \E ok \in BOOLEAN : dpc' = IF ok THEN "next" ELSE "failed"
  /\ UNCHANGED <<cacheVars, busVars, event, users, regVars,
                 sessVars, sinkVars, test_cookie,
                 cfgVars>>

\* lines 175-182: a StorageUpdate calls the lookup
OnStorageUpdate(m) ==
  /\ lk' = [lk EXCEPT !["listen"] =
              [pc |-> "check", storage |-> m.storage, path |-> m.path,
               rows |-> <<>>, guard |-> FALSE]]
  /\ dpc' = "lookup"
  /\ users' = <<>>
  /\ UNCHANGED test_cookie

\* lines 193-199 and 203-209: a GroupUpdate or ShareCreate names its user
OnUserEvent(m) ==
  /\ dpc' = "send"
  /\ users' = <<m.user>>
  /\ UNCHANGED <<lk, test_cookie>>

\* (fault: the register keeps the first cookie it was given)
OnTestCookie_once(m) ==
  /\ test_cookie' = IF test_cookie = 0 THEN m.cookie ELSE test_cookie
  /\ users' = <<>>
  /\ UNCHANGED <<lk, dpc>>

\* lines 213-220
OnTestCookie(m) ==
  /\ test_cookie' = m.cookie
  /\ users' = <<>>
  /\ UNCHANGED <<lk, dpc>>

\* (fault: the error ends the loop, as `?` would)
OnError_abort ==
  /\ dpc' = "ended"
  /\ users' = <<>>
  /\ UNCHANGED <<lk, test_cookie>>

\* line 221: log and go on
OnError ==
  /\ users' = <<>>
  /\ UNCHANGED <<lk, dpc, test_cookie>>

\* lines 173-174: take the next message and match it
NextEvent(M) ==
  /\ dpc = "next"
  /\ stream # <<>>
  /\ \E m \in M :
        /\ event' = [ev |-> Head(stream), msg |-> m]
        /\ stream' = Tail(stream)
        /\ UNCHANGED retry
        /\ CASE m.type = "StorageUpdate" -> OnStorageUpdate(m)
             [] m.type \in {"GroupUpdate", "ShareCreate"} -> OnUserEvent(m)
             [] m.type = "TestCookie" -> OnTestCookie(m)
             [] m.type = "Err" -> OnError
  /\ UNCHANGED <<now, db, cache, queryCount, requests, answer, published,
                 regVars, sessVars, sinkVars, cfgVars>>

\* main.rs 67-73: GET /cookie_test answers with the register in decimal
cookie_test == to_string(test_cookie)

\* line 173: the stream ends
StreamEnd ==
  /\ dpc = "next"
  /\ stream = <<>>
  /\ dpc' = "ended"
  /\ UNCHANGED <<cacheVars, busVars, event, users, regVars,
                 sessVars, sinkVars, test_cookie,
                 cfgVars>>

\* (fault: the call waits for a sink whose receiver is gone)
Send_stalls ==
  /\ dpc = "send"
  /\ users # <<>>
  /\ \A s \in Registered(Head(users)) : pump[s] = "running"
  /\ send_to_user(Head(users), [body |-> NOTIFY, ev |-> event.ev])
  /\ users' = Tail(users)
  /\ dpc' = IF Tail(users) = <<>> THEN "next" ELSE "send"
  /\ event' = IF Tail(users) = <<>> THEN NoEvent ELSE event
  /\ UNCHANGED <<cacheVars, busVars, regVars, sessVars, pump, peer, test_cookie,
                 cfgVars>>

\* (fault: the notification goes to every registered sink)
Send_broadcast ==
  /\ dpc = "send"
  /\ users # <<>>
  /\ queue' = [s \in Sessions |->
                 IF (\E e \in registry : e.sink = s) /\ pump[s] = "running"
                   THEN Append(queue[s], [body |-> NOTIFY, ev |-> event.ev])
                   ELSE queue[s]]
  /\ users' = Tail(users)
  /\ dpc' = IF Tail(users) = <<>> THEN "next" ELSE "send"
  /\ event' = IF Tail(users) = <<>> THEN NoEvent ELSE event
  /\ UNCHANGED <<cacheVars, busVars, regVars, sessVars, pump, peer, test_cookie,
                 cfgVars>>

\* lines 184-188, 199-201, 209-211: one send_to_user call
Send ==
  /\ dpc = "send"
  /\ users # <<>>
  /\ send_to_user(Head(users), [body |-> NOTIFY, ev |-> event.ev])
  /\ users' = Tail(users)
  /\ dpc' = IF Tail(users) = <<>> THEN "next" ELSE "send"
  /\ event' = IF Tail(users) = <<>> THEN NoEvent ELSE event
  /\ UNCHANGED <<cacheVars, busVars, regVars, sessVars, pump, peer, test_cookie,
                 cfgVars>>

\* ------------------------------------------------------------ user_connected
ValidCreds == {<<"alice", "pw">>, <<"bob", "pw">>}

\* format!("err: {}", e)
ErrFrame(reason) == [body |-> <<"err: ", reason>>, ev |-> 0]

\* lines 102-111: split the socket, create the channel, spawn the pump
Accept(s) ==
  /\ spc[s] = "none"
  /\ spc' = [spc EXCEPT ![s] = "AwaitingUsername"]
  /\ pump' = [pump EXCEPT ![s] = "running"]
  /\ UNCHANGED <<cacheVars, busVars, listenVars, regVars, username, password,
                 connection_id, inbound, discarded, queue, peer,
                 test_cookie,
                 cfgVars>>

\* The peer closes its side, or the transport breaks.
PeerEnd(s) ==
  /\ spc[s] \notin {"none", "failed", "closed"}
  /\ inbound[s] = "open"
  /\ \E how \in {"eof", "error"} : inbound' = [inbound EXCEPT ![s] = how]
  /\ UNCHANGED <<cacheVars, busVars, listenVars, regVars, spc, username,
                 password, connection_id, discarded, sinkVars, test_cookie,
                 cfgVars>>

\* the task returns: its locals and the read half of the socket are dropped
Returned(s, at) ==
  /\ spc' = [spc EXCEPT ![s] = at]
  /\ username' = [username EXCEPT ![s] = ""]
  /\ password' = [password EXCEPT ![s] = ""]
  /\ connection_id' = [connection_id EXCEPT ![s] = -1]
  /\ inbound' = [inbound EXCEPT ![s] = "dropped"]
  /\ discarded' = [discarded EXCEPT ![s] = 0]

\* (fault: return without telling the peer)
AuthFailed_silent(s, reason) ==
  /\ Returned(s, "failed")
  /\ UNCHANGED <<regVars, queue, pump, peer>>

\* lines 115-119: tx.send of the error frame, then return
AuthFailed(s, reason) ==
  /\ Returned(s, "failed")
  /\ queue' = IF pump[s] = "running"
                THEN [queue EXCEPT ![s] = Append(@, ErrFrame(reason))]
                ELSE queue
  /\ UNCHANGED <<regVars, pump, peer>>

\* read_socket_auth_message, lines 139-144, as seen by its caller:
\* what the read yields on a socket in state `inb`
ReadOutcomes(inb) ==
  CASE inb = "eof" -> {[kind |-> "none"]}
    [] inb = "error" -> {[kind |-> "error"]}
    [] OTHER -> {[kind |-> "timeout"], [kind |-> "binary"]}
                \cup {[kind |-> "text", text |-> t] : t \in Texts}

ReadError(o) ==
  CASE o.kind = "none" -> "Client disconnected during authentication"
    [] o.kind = "error" -> "Socket error during authentication"
    [] o.kind = "timeout" -> "Authentication timeout"
    [] OTHER -> "Invalid authentication message"

\* socket_auth, lines 148-151
ReadUsername(s) ==
  /\ spc[s] = "AwaitingUsername"
  /\ \E o \in ReadOutcomes(inbound[s]) :
       IF o.kind = "text"
         THEN /\ username' = [username EXCEPT ![s] = o.text]
              /\ spc' = [spc EXCEPT ![s] = "AwaitingPassword"]
              /\ UNCHANGED <<regVars, password, connection_id, inbound,
                             discarded, sinkVars>>
         ELSE AuthFailed(s, ReadError(o))
  /\ UNCHANGED <<cacheVars, busVars, listenVars, test_cookie,
                 cfgVars>>

\* socket_auth, lines 152-155
ReadPassword(s) ==
  /\ spc[s] = "AwaitingPassword"
  /\ \E o \in ReadOutcomes(inbound[s]) :
       IF o.kind = "text"
         THEN /\ password' = [password EXCEPT ![s] = o.text]
              /\ spc' = [spc EXCEPT ![s] = "Verifying"]
              /\ UNCHANGED <<regVars, username, connection_id, inbound,
                             discarded, sinkVars>>
         ELSE AuthFailed(s, ReadError(o))
  /\ UNCHANGED <<cacheVars, busVars, listenVars, test_cookie,
                 cfgVars>>

\* nc::Client::verify_credentials: the upstream answer, or a request error
verify_credentials(u, p) ==
  {IF <<u, p>> \in ValidCreds THEN "true" ELSE "false", "error"}

\* (fault: the answer of the verifier is not looked at)
Verify_unchecked(s) ==
  /\ spc[s] = "Verifying"
  /\ \E r \in verify_credentials(username[s], password[s]) :
       CASE r \in {"true", "false"} ->
              /\ add(username[s], s)
              /\ connection_id' = [connection_id EXCEPT ![s] = nextConnId]
              /\ spc' = [spc EXCEPT ![s] = "Established"]
              /\ UNCHANGED <<username, password, inbound, discarded, sinkVars>>
         [] OTHER -> AuthFailed(s, "Verifier error")
  /\ UNCHANGED <<cacheVars, busVars, listenVars, test_cookie,
                 cfgVars>>

\* socket_auth 157-163 and user_connected 113-122
Verify(s) ==
  /\ spc[s] = "Verifying"
  /\ \E r \in verify_credentials(username[s], password[s]) :
       CASE r = "true" ->
              /\ add(username[s], s)
              /\ connection_id' = [connection_id EXCEPT ![s] = nextConnId]
              /\ spc' = [spc EXCEPT ![s] = "Established"]
              /\ UNCHANGED <<username, password, inbound, discarded, sinkVars>>
         [] r = "false" -> AuthFailed(s, "Invalid credentials")
         [] OTHER -> AuthFailed(s, "Verifier error")
  /\ UNCHANGED <<cacheVars, busVars, listenVars, test_cookie,
                 cfgVars>>

\* lines 125-127: an inbound frame is read and dropped
RecvFrame(s) ==
  /\ spc[s] = "Established"
  /\ inbound[s] = "open"
  /\ discarded[s] < MaxFrames
  /\ discarded' = [discarded EXCEPT ![s] = @ + 1]
  /\ UNCHANGED <<cacheVars, busVars, listenVars, regVars, spc, username,
                 password, connection_id, inbound, sinkVars, test_cookie,
                 cfgVars>>

\* (fault: return without connections.remove)
RecvEnd_keep(s) ==
  /\ spc[s] = "Established"
  /\ inbound[s] \in {"eof", "error"}
  /\ UNCHANGED regVars
  /\ Returned(s, "closed")
  /\ UNCHANGED <<cacheVars, busVars, listenVars, sinkVars, test_cookie,
                 cfgVars>>

\* (fault: the entries are dropped by user, not by connection id)
RecvEnd_all(s) ==
  /\ spc[s] = "Established"
  /\ inbound[s] \in {"eof", "error"}
  /\ registry' = {e \in registry : e.user # username[s]}
  /\ UNCHANGED nextConnId
  /\ Returned(s, "closed")
  /\ UNCHANGED <<cacheVars, busVars, listenVars, sinkVars, test_cookie,
                 cfgVars>>

\* lines 125, 128-135: the stream ends or fails; the loop ends; remove
RecvEnd(s) ==
  /\ spc[s] = "Established"
  /\ inbound[s] \in {"eof", "error"}
  /\ remove(username[s], connection_id[s])
  /\ Returned(s, "closed")
  /\ UNCHANGED <<cacheVars, busVars, listenVars, sinkVars, test_cookie,
                 cfgVars>>

\* ------------------------------------------------------ outbound pump (107)
\* (fault: the newest message goes out first)
PumpForward_last(s) ==
  /\ pump[s] = "running"
  /\ queue[s] # <<>>
  /\ peer' = [peer EXCEPT ![s] = queue[s][Len(queue[s])]]
  /\ queue' = [queue EXCEPT ![s] = SubSeq(@, 1, Len(@) - 1)]
  /\ UNCHANGED <<cacheVars, busVars, listenVars, regVars, sessVars, pump,
                 test_cookie,
                 cfgVars>>

\* rx.forward(user_ws_tx): one message goes out to the peer
PumpForward(s) ==
  /\ pump[s] = "running"
  /\ queue[s] # <<>>
  /\ peer' = [peer EXCEPT ![s] = Head(queue[s])]
  /\ queue' = [queue EXCEPT ![s] = Tail(@)]
  /\ UNCHANGED <<cacheVars, busVars, listenVars, regVars, sessVars, pump,
                 test_cookie,
                 cfgVars>>

\* the websocket send fails: forward ends with the error, rx is dropped
PumpFail(s) ==
  /\ pump[s] = "running"
  /\ queue[s] # <<>>
  /\ pump' = [pump EXCEPT ![s] = "failed"]
  /\ queue' = [queue EXCEPT ![s] = <<>>]
  /\ UNCHANGED <<cacheVars, busVars, listenVars, regVars, sessVars, peer,
                 test_cookie,
                 cfgVars>>

\* every sender is gone and the channel is drained: forward closes the socket
PumpClose(s) ==
  /\ pump[s] = "running"
  /\ queue[s] = <<>>
  /\ spc[s] \in {"failed", "closed"}
  /\ pump' = [pump EXCEPT ![s] = "closed"]
  /\ UNCHANGED <<cacheVars, busVars, listenVars, regVars, sessVars, queue,
                 peer, test_cookie,
                 cfgVars>>

\* ------------------------------------------------------------ Config::from_opt
\* config.rs 195-206: read the three sources, merge them, build the Config
Config_from_opt ==
  /\ config = NotLoaded
  /\ config' = resolve(opt, env, config_file)
  /\ UNCHANGED <<opt, env, config_file, cacheVars, busVars, listenVars,
                 regVars, sessVars, sinkVars, test_cookie>>

\* ------------------------------------------------------------ specification
Lookup(C) == \E c \in C :
  \/ Check(c) \/ QueryOk(c) \/ QueryErr(c) \/ Install(c) \/ Get(c) \/ Filter(c)

Session(S) == \E s \in S :
  \/ Accept(s) \/ PeerEnd(s) \/ ReadUsername(s) \/ ReadPassword(s) \/ Verify(s)
  \/ RecvFrame(s) \/ RecvEnd(s)

Pump(S) == \E s \in S : PumpForward(s) \/ PumpFail(s) \/ PumpClose(s)

StorageMessages == {m \in Messages : m.type = "StorageUpdate"}
SessionMessages ==
  {m \in Messages : \/ m.type = "GroupUpdate"
                    \/ m.type = "TestCookie" /\ m.cookie = 7}

\* the access cache under the dispatcher and mapping_test requests
NextCache ==
  \/ Tick(Instants) \/ DbChange(Storages) \/ Publish
  \/ MappingTest(Storages) \/ Lookup(Callers)
  \/ Subscribe \/ NextEvent(StorageMessages) \/ StreamEnd \/ Send

SpecCache == Init /\ [][NextCache]_vars

\* the session life cycle under events that name their user
NextSession ==
  \/ Publish
  \/ Subscribe \/ NextEvent(SessionMessages) \/ StreamEnd \/ Send
  \/ Session(Sessions) \/ Pump(Sessions)

SpecSession == Init /\ [][NextSession]_vars

\* The runtime polls a task whose stream is ready and a pump whose channel
\* has a message or is closed.
FairSpecSession ==
  /\ SpecSession
  /\ \A s \in Sessions :
       /\ WF_vars(RecvEnd(s))
       /\ WF_vars(PumpForward(s) \/ PumpFail(s) \/ PumpClose(s))

\* Sessions past the handshake: every socket has sent a user name and the
\* password, and is registered (user_connected up to line 122).
InitEstablished ==
  /\ now = 0
  /\ db = [s \in Storages |-> << Row("alice", <<>>), Row("bob", <<"a">>) >>]
  /\ cache = [s \in Storages |-> NoEntry]
  /\ queryCount = 0
  /\ test_cookie = 0
  /\ lk = [c \in Callers |-> IdleLookup]
  /\ requests = 0
  /\ answer = <<>>
  /\ retry = {}
  /\ stream = <<>>
  /\ published = 0
  /\ dpc = "subscribe"
  /\ event = NoEvent
  /\ users = <<>>
  /\ opt = NoOpt
  /\ env = NoEnv
  /\ config_file = PartialConfig_default
  /\ config = resolve(NoOpt, NoEnv, PartialConfig_default)
  /\ username \in {f \in [Sessions -> Users] : f[1] = "alice"}
  /\ password = [s \in Sessions |-> "pw"]
  /\ connection_id = [s \in Sessions |-> s - 1]
  /\ registry = {[user |-> username[s], id |-> s - 1, sink |-> s] : s \in Sessions}
  /\ nextConnId = Cardinality(Sessions)
  /\ spc = [s \in Sessions |-> "Established"]
  /\ inbound = [s \in Sessions |-> "open"]
  /\ discarded = [s \in Sessions |-> 0]
  /\ queue = [s \in Sessions |-> <<>>]
  /\ pump = [s \in Sessions |-> "running"]
  /\ peer = [s \in Sessions |-> NoFrame]

DispatchMessages ==
  {m \in Messages : /\ m.type = "StorageUpdate" => m.storage = 42
                    /\ m.type = "GroupUpdate" => m.user = "alice"
                    /\ m.type = "ShareCreate" => m.user = "bob"
                    /\ m.type = "TestCookie" => m.cookie = 7}

\* storage events fanned out to established sessions
NextFanOut ==
  \/ Tick({TTL + 1}) \/ DbChange({42}) \/ Publish
  \/ Lookup({"listen"})
  \/ Subscribe \/ NextEvent({m \in StorageMessages : m.storage = 42})
  \/ StreamEnd \/ Send
  \/ \E s \in Sessions : PeerEnd(s) \/ RecvEnd(s)
  \/ Pump(Sessions)

SpecFanOut == InitEstablished /\ [][NextFanOut]_vars

\* the dispatcher over established sessions
NextDispatch ==
  \/ Tick({TTL + 1}) \/ DbChange({42}) \/ Publish
  \/ Lookup({"listen"})
  \/ Subscribe \/ NextEvent(DispatchMessages) \/ StreamEnd \/ Send
  \/ \E s \in Sessions : PeerEnd(s) \/ RecvEnd(s)
  \/ Pump(Sessions)

SpecDispatch == InitEstablished /\ [][NextDispatch]_vars

\* one storage under the dispatcher and mapping_test requests
NextLookup ==
  \/ Tick(Instants) \/ DbChange({42}) \/ Publish
  \/ MappingTest({42}) \/ Lookup(Callers)
  \/ Subscribe \/ NextEvent({m \in StorageMessages : m.storage = 42})
  \/ StreamEnd \/ Send

SpecLookup == Init /\ [][NextLookup]_vars

\* Start-up: a command line, an environment and a configuration file are
\* given and nothing has run yet.
InitConfig ==
  /\ opt \in Opts
  /\ env \in Envs
  /\ config_file \in FileConfigs
  /\ config = NotLoaded
  /\ now = 0
  /\ db = [s \in Storages |-> << Row("alice", <<>>), Row("bob", <<"a">>) >>]
  /\ cache = [s \in Storages |-> NoEntry]
  /\ queryCount = 0
  /\ test_cookie = 0
  /\ lk = [c \in Callers |-> IdleLookup]
  /\ requests = 0
  /\ answer = <<>>
  /\ retry = {}
  /\ stream = <<>>
  /\ published = 0
  /\ dpc = "subscribe"
  /\ event = NoEvent
  /\ users = <<>>
  /\ registry = {}
  /\ nextConnId = 0
  /\ spc = [s \in Sessions |-> "none"]
  /\ username = [s \in Sessions |-> ""]
  /\ password = [s \in Sessions |-> ""]
  /\ connection_id = [s \in Sessions |-> -1]
  /\ inbound = [s \in Sessions |-> "open"]
  /\ discarded = [s \in Sessions |-> 0]
  /\ queue = [s \in Sessions |-> <<>>]
  /\ pump = [s \in Sessions |-> "none"]
  /\ peer = [s \in Sessions |-> NoFrame]

NextConfig == Config_from_opt

SpecConfig == InitConfig /\ [][NextConfig]_vars

\* the dispatcher alone, under every kind of message
NextProbe ==
  \/ Publish \/ Lookup({"listen"})
  \/ Subscribe \/ NextEvent(Messages) \/ StreamEnd \/ Send

SpecProbe == Init /\ [][NextProbe]_vars

Next ==
  \/ Tick(Instants) \/ DbChange(Storages) \/ Publish
  \/ MappingTest(Storages) \/ Lookup(Callers)
  \/ Subscribe \/ NextEvent(Messages) \/ StreamEnd \/ Send
  \/ Session(Sessions) \/ Pump(Sessions)
  \/ Config_from_opt

Spec == Init /\ [][Next]_vars

\* ------------------------------------------------------------------ claims
\* caller c runs the cache test of get_users_for_storage_path in this step
Checks(c) == lk[c].pc = "check" /\ lk'[c].pc # "check"

\* C2: a lookup made while the stored entry of its storage is less than TTL
\* old (now < valid_till) is answered from the entry without a database load.
C2_MemoizedWithinTTL ==
  [][\A c \in Callers :
       (/\ Checks(c)
        /\ cache[lk[c].storage] # NoEntry
        /\ now < cache[lk[c].storage].valid_till)
       => (lk'[c].pc # "load" /\ queryCount' = queryCount)]_vars

\* C3: a lookup that finds no entry, or an entry with now >= valid_till, goes
\* to the database, and the entry it installs is valid until now + TTL.
C3_ExpiredNeverUsed ==
  /\ [][\A c \in Callers :
          (/\ Checks(c)
           /\ \/ cache[lk[c].storage] = NoEntry
              \/ now >= cache[lk[c].storage].valid_till)
          => lk'[c].pc = "load"]_vars
  /\ [][\A c \in Callers :
          (lk[c].pc = "loaded" /\ lk'[c].pc = "get")
          => cache'[lk[c].storage] = [access |-> lk[c].rows, valid_till |-> now + TTL]]_vars

\* C9: a failed load for a StorageUpdate sends nothing, leaves the cache and
\* the query counter alone and leaves listen ready for the next message; and
\* the next lookup for that storage goes to the database again.
C9_FailedLoadDropsEvent ==
  /\ [][(lk["listen"].pc = "load" /\ lk'["listen"].pc = "idle")
          => /\ queue' = queue
             /\ cache' = cache
             /\ queryCount' = queryCount
             /\ dpc' = "next"]_vars
  /\ [][\A c \in Callers :
          (Checks(c) /\ lk[c].storage \in retry) => lk'[c].pc = "load"]_vars

\* root is a byte prefix of path
IsPrefix(root, path) ==
  \E k \in 0..Len(path) : root = [j \in 1..k |-> path[j]]

\* user u has a row in `rows` whose root is a prefix of path
HasRow(rows, u, path) ==
  \E i \in DOMAIN rows : rows[i].user = u /\ IsPrefix(rows[i].root, path)

\* the lookup of listen returns in this step
ListenReturns == lk["listen"].pc # "idle" /\ lk'["listen"].pc = "idle"

\* listen makes one send_to_user call in this step
Sends == dpc = "send" /\ users # <<>> /\ users' = Tail(users)

\* sink c is filed under user u and its receiving end is alive
LiveSink(c, u) ==
  /\ \E e \in registry : e.sink = c /\ e.user = u
  /\ pump[c] = "running"

Notification == [body |-> NOTIFY, ev |-> event.ev]

\* A queue grows only by a send_to_user call of listen, by one notification,
\* on a live sink of the user of that call; that call reaches every such sink.
FanOut ==
  /\ \A c \in Sessions :
       Len(queue'[c]) > Len(queue[c])
       => /\ Sends
          /\ LiveSink(c, Head(users))
          /\ queue'[c] = Append(queue[c], Notification)
  /\ Sends => \A c \in Sessions :
                LiveSink(c, Head(users)) => queue'[c] = Append(queue[c], Notification)

\* C1 as stated: for every StorageUpdate the users whose sinks are notified are
\* exactly the users with an access row of the storage (in the database)
\* whose root is a prefix of the path, and only their registered sinks receive.
C1_RecipientsFromDatabase ==
  /\ [][ListenReturns
          => \A u \in Users :
               u \in Range(users')
               <=> HasRow(db[lk["listen"].storage], u, lk["listen"].path)]_vars
  /\ [][event.msg.type = "StorageUpdate" => FanOut]_vars

\* C1 amended: when the lookup of a StorageUpdate succeeds, the users notified
\* are exactly the users with a matching row in the access list the lookup
\* read from the cache (stored or just installed); when the load fails nobody
\* is notified; each send_to_user call enqueues one notification on exactly
\* the live sinks registered under its user, and no other sink receives.
C1_RecipientsFromAccessList ==
  /\ [][ListenReturns
          => IF lk["listen"].pc = "load"
               THEN users' = <<>> /\ dpc' = "next"
               ELSE \A u \in Users :
                      u \in Range(users')
                      <=> HasRow(cache[lk["listen"].storage].access, u,
                                 lk["listen"].path)]_vars
  /\ [][event.msg.type = "StorageUpdate" => FanOut]_vars

\* a StorageUpdate has reached a sink of one user while a registered sink of
\* a user without a matching row has received nothing
C1_Witness ==
  \E c1, c2 \in Sessions :
    /\ event.msg.type = "StorageUpdate"
    /\ dpc = "send"
    /\ queue[c1] # <<>> /\ queue[c1][Len(queue[c1])].ev = event.ev
    /\ \E e \in registry : e.sink = c2 /\ e.user = "bob"
    /\ pump[c2] = "running" /\ queue[c2] = <<>> /\ peer[c2] = NoFrame

DirectTypes == {"GroupUpdate", "ShareCreate"}

\* C7: a GroupUpdate or ShareCreate is sent to the sinks of its user only, and
\* handling it neither calls the lookup nor changes the cache or the counter.
C7_DirectEventsBypassCache ==
  /\ [][(event' # event /\ event'.msg.type \in DirectTypes)
          => /\ users' = <<event'.msg.user>>
             /\ dpc' = "send"
             /\ lk' = lk /\ cache' = cache /\ queryCount' = queryCount]_vars
  /\ [][event.msg.type \in DirectTypes
          => /\ lk' = lk /\ cache' = cache /\ queryCount' = queryCount
             /\ FanOut
             /\ users = <<event.msg.user>>
             /\ Sends => (users' = <<>> /\ dpc' = "next")]_vars

\* with no lookup ever made (empty cache, counter 0) the first event has been
\* handled and its notification sits on the sink of one user, while the live
\* sink of the other user has received nothing: the event named its user
C7_Witness ==
  \E c1, c2 \in Sessions :
    /\ dpc = "next" /\ event = NoEvent
    /\ queryCount = 0
    /\ \A s \in Storages : cache[s] = NoEntry
    /\ LiveSink(c1, "alice")
    /\ queue[c1] = <<[body |-> NOTIFY, ev |-> 1]>>
    /\ LiveSink(c2, "bob")
    /\ queue[c2] = <<>> /\ peer[c2] = NoFrame

\* C8: an erroneous message is skipped: listen stays in its loop, the rest of
\* the stream is untouched and in order, and nothing else changes.
C8_ErrorsAreSkipped ==
  [][(event' # event /\ event'.msg.type = "Err")
       => /\ dpc = "next" /\ dpc' = "next"
          /\ event'.ev = Head(stream)
          /\ stream' = Tail(stream)
          /\ UNCHANGED <<cacheVars, published, users, regVars, sessVars,
                         sinkVars, test_cookie>>]_vars

\* an erroneous message was skipped and a later message waits for listen
C8_Witness ==
  /\ event.msg.type = "Err"
  /\ event.ev = 1
  /\ dpc = "next"
  /\ stream = <<2>>

\* sequence numbers of the messages in a queue
Tags(q) == [i \in DOMAIN q |-> q[i].ev]

NonDecreasing(q) == \A i, j \in DOMAIN q : i < j => q[i] <= q[j]

\* C10: listen takes the messages in bus order, one at a time, and what a
\* sink has forwarded and still holds is in the order the events arrived.
C10_PerSinkFIFO ==
  /\ NonDecreasing(stream)
  /\ \A i \in DOMAIN stream : event.ev < stream[i]
  /\ \A s \in Sessions :
       /\ NonDecreasing(<<peer[s].ev>> \o Tags(queue[s]))
       /\ \A i \in DOMAIN queue[s] : \A j \in DOMAIN stream : queue[s][i].ev < stream[j]

\* a sink has forwarded the notification of the first event and holds the
\* notification of the second
C10_Witness ==
  \E s \in Sessions :
    /\ peer[s].ev = 1
    /\ queue[s] # <<>>
    /\ queue[s][1].ev = 2

HandshakePcs == {"AwaitingUsername", "AwaitingPassword", "Verifying"}

RegisteredSink(s) == \E e \in registry : e.sink = s

Entry(s) == [user |-> username[s], id |-> connection_id[s], sink |-> s]

\* C4: a session enters the registry only from the end of the handshake, after
\* a user name frame and then a password frame, when the verifier accepts that
\* pair; it is filed under the content of the first frame.
C4_HandshakeGatesRegistration ==
  /\ [](\A e \in registry :
          /\ spc[e.sink] = "Established"
          /\ e = Entry(e.sink)
          /\ <<username[e.sink], password[e.sink]>> \in ValidCreds)
  /\ [][\A s \in Sessions :
          /\ (spc'[s] = "AwaitingPassword" /\ spc[s] # "AwaitingPassword")
             => (spc[s] = "AwaitingUsername" /\ username'[s] \in Texts)
          /\ (spc'[s] = "Verifying" /\ spc[s] # "Verifying")
             => (spc[s] = "AwaitingPassword" /\ username'[s] = username[s])
          /\ (\E e \in registry' \ registry : e.sink = s)
             => /\ spc[s] = "Verifying"
                /\ <<username[s], password[s]>> \in ValidCreds
                /\ registry' \ registry =
                     {[user |-> username[s], id |-> nextConnId, sink |-> s]}]_vars

\* every socket has got through the handshake and is registered, before
\* anything else has happened
C4_Witness ==
  /\ \A s \in Sessions :
       /\ spc[s] = "Established"
       /\ <<username[s], password[s]>> = <<"alice", "pw">>
       /\ Entry(s) \in registry
  /\ InitEstablished

IsErrFrame(f) == Len(f.body) = 2 /\ f.body[1] = "err: "

\* C5: a handshake that fails never registers the session; it enqueues one
\* "err: " frame on an empty channel, nothing is enqueued afterwards, the
\* registry and the test cookie are untouched, and the pump ends.
C5_FailedHandshake ==
  /\ [](\A s \in Sessions :
          /\ spc[s] \in HandshakePcs \cup {"failed"} => ~RegisteredSink(s)
          /\ spc[s] \in HandshakePcs => (queue[s] = <<>> /\ peer[s] = NoFrame)
          /\ spc[s] = "failed" => (peer[s] = NoFrame \/ IsErrFrame(peer[s])))
  /\ [][\A s \in Sessions :
          /\ (spc[s] # "failed" /\ spc'[s] = "failed")
             => /\ spc[s] \in HandshakePcs
                /\ Len(queue'[s]) = 1 /\ IsErrFrame(queue'[s][1])
                /\ UNCHANGED <<registry, nextConnId, test_cookie>>
          /\ spc[s] = "failed"
             => /\ spc'[s] = "failed"
                /\ Len(queue'[s]) <= Len(queue[s])
                /\ peer'[s] # peer[s] => peer'[s] = Head(queue[s])]_vars
  /\ \A s \in Sessions : (spc[s] = "failed") ~> (pump[s] # "running")

\* a failed session has had its error frame written and its socket closed
\* while another session is registered
C5_Witness ==
  \E s \in Sessions :
    /\ spc[s] = "failed"
    /\ pump[s] = "closed"
    /\ IsErrFrame(peer[s])
    /\ registry # {}

\* C6: an established session whose inbound stream has ended or failed is
\* eventually deregistered, by a remove of the entry its add created and of
\* nothing else; frames read before that change nothing.
C6_EstablishedEventuallyRemoved ==
  /\ \A s \in Sessions :
       (spc[s] = "Established" /\ inbound[s] \in {"eof", "error"})
       ~> (spc[s] = "closed" /\ ~RegisteredSink(s))
  /\ [](\A s \in Sessions : spc[s] = "Established" => Entry(s) \in registry)
  /\ [][\A s \in Sessions :
          /\ (spc[s] = "Established" /\ spc'[s] # "Established")
             => /\ spc'[s] = "closed"
                /\ inbound[s] \in {"eof", "error"}
                /\ registry' = registry \ {Entry(s)}
          /\ discarded'[s] > discarded[s]
             => /\ spc[s] = "Established" /\ inbound[s] = "open"
                /\ UNCHANGED <<cacheVars, busVars, listenVars, regVars, spc,
                               username, password, connection_id, inbound,
                               sinkVars, test_cookie>>]_vars

\* one session has ended and left the registry; the other has dropped a frame
\* and is still registered
C6_Witness ==
  \E s, t \in Sessions :
    /\ spc[s] = "closed"
    /\ spc[t] = "Established"
    /\ discarded[t] = 1
    /\ registry = {Entry(t)}

\* the run of listen is over: subscribing failed, or the stream ended
ListenOver == dpc \in {"failed", "ended"}

\* C11: once the subscription has failed terminally the process stops
\* serving: no further mapping_test request is taken and no further
\* websocket is accepted.
C11_TerminalFailureStopsService ==
  [][ListenOver
       => /\ requests' = requests
          /\ \A s \in Sessions : spc[s] = "none" => spc'[s] = "none"]_vars

\* listen takes a message of the given types in this step
Takes(types) == event' # event /\ event'.msg.type \in types

\* C12: the register starts at 0, a TestCookie(n) that listen takes sets it
\* to n, and nothing else changes it: it holds the n of the latest
\* TestCookie, and GET /cookie_test answers with its decimal digits.
C12_CookieRegister ==
  /\ test_cookie = 0 /\ cookie_test = <<"0">>
  /\ [][IF Takes({"TestCookie"})
          THEN test_cookie' = event'.msg.cookie
          ELSE test_cookie' = test_cookie]_vars
  /\ [](test_cookie = 12345 => cookie_test = <<"1", "2", "3", "4", "5">>)

\* the second message taken was a TestCookie(12345), it has been handled,
\* and the endpoint answers "12345"
C12_Witness ==
  /\ event.ev = 2
  /\ event.msg = [type |-> "TestCookie", cookie |-> 12345]
  /\ cookie_test = <<"1", "2", "3", "4", "5">>
  /\ dpc = "next"

\* a path and its prefixes
AllPaths == {<<>>, <<"a">>, <<"a", "b">>, <<"b">>}

\* the users a lookup of path p gets from the entry stored for storage s
UsersFor(s, p) == Range(filter_map(cache[s].access, p))

\* C13 as stated: on one stored access list, if p2 is a prefix of p1 then the
\* users returned for p1 are among the users returned for p2.
C13_LongerPathFewerUsers ==
  \A s \in Storages :
    cache[s] # NoEntry
    => \A p1, p2 \in AllPaths :
         IsPrefix(p2, p1) => UsersFor(s, p1) \subseteq UsersFor(s, p2)

\* C13 amended: on one stored access list, if p2 is a prefix of p1 then the
\* users returned for p2 are among the users returned for p1.
C13_LongerPathMoreUsers ==
  \A s \in Storages :
    cache[s] # NoEntry
    => \A p1, p2 \in AllPaths :
         IsPrefix(p2, p1) => UsersFor(s, p2) \subseteq UsersFor(s, p1)

\* an installed list gives one user for the empty path and two for a longer
\* one, and a mapping_test request has been answered from it
C13_Witness ==
  /\ cache[42] # NoEntry
  /\ UsersFor(42, <<>>) = {"alice"}
  /\ UsersFor(42, <<"a", "b">>) = {"alice", "bob"}
  /\ answer = <<"1">>

\* the lookup of a mapping_test request returns successfully in this step
MappingTestReturns ==
  lk["mapping_test"].pc = "filter" /\ lk'["mapping_test"].pc = "idle"

\* C14: a mapping_test request that is served answers with the number of
\* rows of the access list stored for its storage, whatever their roots.
C14_CountsAllRows ==
  [][MappingTestReturns
       => answer' = to_string(Len(cache[lk["mapping_test"].storage].access))]_vars

OctalDigits == {"0", "1", "2", "3", "4", "5", "6", "7"}

\* C15: a Config is built from a permission string given on the command
\* line only if the string has exactly 4 characters, starts with "0" and is
\* octal; every other string gives a configuration error.
C15_PermissionsGate ==
  (config.state = "ok" /\ opt.socket_permissions # None)
  => LET perm == opt.socket_permissions[1]
     IN /\ Len(perm) = 4
        /\ perm[1] = "0"
        /\ \A i \in DOMAIN perm : perm[i] \in OctalDigits

\* the first of three optional values that is set
Highest(cli, environment, file) ==
  IF cli # None THEN cli ELSE IF environment # None THEN environment ELSE file

\* the certificate, or the key, of an optional TlsConfig
TlsField(tls, field) == IF tls = None THEN None ELSE Some(tls[1][field])

\* a sequence of at most one element, read as an Option
AsOption(vec) == IF vec = <<>> THEN None ELSE Some(vec[1])

\* C16: in a Config that is built, every option has the value of the
\* highest source that sets it: command line, then environment, then file
\* (the TLS paths are compared when the Config has a TLS section).
C16_Precedence ==
  config.state = "ok"
  => /\ AsOption(config.value.redis) =
          Highest(AsOption(opt.redis_url), env.REDIS_URL,
                  AsOption(config_file.redis))
     /\ LET set == Highest(IF opt.allow_self_signed THEN Some(TRUE) ELSE None,
                           IF env.ALLOW_SELF_SIGNED = None THEN None
                           ELSE Some(env.ALLOW_SELF_SIGNED[1] = "true"),
                           config_file.allow_self_signed)
        IN config.value.allow_self_signed =
             IF set = None THEN Some(FALSE) ELSE set
     /\ config.value.tls # None
        => /\ TlsField(config.value.tls, "cert") =
                Highest(opt.tls_cert, env.TLS_CERT,
                        TlsField(config_file.tls, "cert"))
           /\ TlsField(config.value.tls, "key") =
                Highest(opt.tls_key, env.TLS_KEY,
                        TlsField(config_file.tls, "key"))
     /\ LET perm == Highest(opt.socket_permissions, env.SOCKET_PERMISSIONS,
                            config_file.socket_permissions)
        IN config.value.socket_permissions =
             IF perm = None THEN Some(DEFAULT_PERMISSIONS)
             ELSE Some(from_str_radix(perm[1], 8).value)

\* sink c is filed under user u although its pump has terminated
DeadSink(c, u) ==
  /\ \E e \in registry : e.sink = c /\ e.user = u
  /\ pump[c] \in {"failed", "closed"}

\* C17: a send_to_user call is never held up: it can always be made, and
\* when a sink of its user is dead that sink gets nothing, listen moves on
\* to the next user or message, and every live sink of the user gets the
\* notification.
C17_SeveredSinkDoesNotStall ==
  /\ []((dpc = "send" /\ users # <<>>) => ENABLED Send)
  /\ [][(Sends /\ \E c \in Sessions : DeadSink(c, Head(users)))
          => /\ \A c \in Sessions :
                  DeadSink(c, Head(users)) => queue'[c] = queue[c]
             /\ \A c \in Sessions :
                  LiveSink(c, Head(users))
                  => queue'[c] = Append(queue[c], Notification)
             /\ dpc' = IF Tail(users) = <<>> THEN "next" ELSE "send"]_vars

\* one sink of alice is dead and still registered and has forwarded nothing;
\* her other sink has forwarded the first notification and holds the second
C17_Witness ==
  \E c1, c2 \in Sessions :
    /\ DeadSink(c1, "alice") /\ pump[c1] = "failed" /\ peer[c1] = NoFrame
    /\ LiveSink(c2, "alice")
    /\ peer[c2].ev = 1
    /\ queue[c2] = <<[body |-> NOTIFY, ev |-> 2]>>
    /\ dpc = "next"

\* C18: a caller that awaits the database holds no guard of the cache map;
\* a guard is held only while the list is filtered, is released by the
\* caller's next step, the return, and is gone when listen awaits a send.
C18_NoGuardAcrossAwait ==
  /\ [](\A c \in Callers :
          /\ lk[c].pc = "load" => ~lk[c].guard
          /\ lk[c].guard <=> lk[c].pc = "filter")
  /\ [](dpc = "send" => ~lk["listen"].guard)
  /\ [][\A c \in Callers :
          (lk[c].guard /\ lk'[c] # lk[c])
          => (lk'[c] = IdleLookup /\ cache' = cache)]_vars

\* one caller holds the guard of a hit while the other awaits the database
\* for the same storage
C18_Witness ==
  \E c, d \in Callers :
    /\ lk[c].pc = "filter" /\ lk[c].guard
    /\ lk[d].pc = "load" /\ ~lk[d].guard
    /\ lk[c].storage = lk[d].storage

\* caller c installs what it loaded in this step
Installs(c) == lk[c].pc = "loaded" /\ lk'[c].pc = "get"

\* C19: every caller that misses makes its own load, whatever the other
\* caller is doing; every install counts one query and replaces the entry by
\* what its caller loaded; a caller past its install always finds an entry;
\* and a call ends either with its own failed load or with the users of the
\* entry that is in the cache when it reads it.
C19_ConcurrentMisses ==
  /\ [][\A c \in Callers :
          /\ (Checks(c) /\ ~lk'[c].guard) => lk'[c].pc = "load"
          /\ (lk[c].pc = "load" /\ lk'[c].pc = "loaded")
             => lk'[c].rows = db[lk[c].storage]
          /\ Installs(c)
             => /\ queryCount' = queryCount + 1
                /\ cache'[lk[c].storage] =
                     [access |-> lk[c].rows, valid_till |-> now + TTL]
          /\ (lk[c].pc # "idle" /\ lk'[c].pc = "idle")
             => \/ lk[c].pc = "load"
                \/ /\ lk[c].pc = "filter"
                   /\ c = "listen"
                      => users' = filter_map(cache[lk[c].storage].access,
                                             lk[c].path)
                   /\ c = "mapping_test"
                      => answer' =
                           to_string(Len(filter_map(
                             cache[lk[c].storage].access, lk[c].path)))]_vars
  /\ [](\A c \in Callers :
          lk[c].pc \in {"get", "filter"}
          => /\ cache[lk[c].storage] # NoEntry
             /\ ENABLED (Get(c) \/ Filter(c)))

\* both callers missed on the same storage, loaded different lists and
\* installed them: two queries were counted and the cache holds one of the
\* two lists
C19_Witness ==
  \E c, d \in Callers :
    /\ c # d
    /\ lk[c].pc = "get" /\ lk[d].pc = "get"
    /\ lk[c].storage = lk[d].storage
    /\ lk[c].rows # lk[d].rows
    /\ queryCount = 2
    /\ cache[lk[c].storage].access = lk[c].rows

\* the entry of the storage caller c looks up has a valid_till in the past
Expired(c) ==
  /\ cache[lk[c].storage] # NoEntry
  /\ cache[lk[c].storage].valid_till < now

\* A lookup is answered from the stored entry, with no load and no change
\* of the cache, exactly when valid_till < now; every other lookup goes to
\* the database, and a list that was loaded is installed with a new
\* valid_till.
InvertedUse ==
  \A c \in Callers :
    /\ Checks(c)
       => IF Expired(c)
            THEN /\ lk'[c].pc = "filter"
                 /\ cache' = cache /\ queryCount' = queryCount
            ELSE lk'[c].pc = "load"
    /\ (lk[c].pc = "filter" /\ lk'[c] # lk[c])
       => (lk'[c] = IdleLookup /\ cache' = cache /\ queryCount' = queryCount)
    /\ (lk[c].pc = "loaded" /\ lk'[c] # lk[c])
       => /\ Installs(c)
          /\ queryCount' = queryCount + 1
          /\ cache'[lk[c].storage] =
               [access |-> lk[c].rows, valid_till |-> now + TTL]

\* C20 as stated: the cache is used only after expiry, and every lookup made
\* at now <= valid_till reloads and reinstalls the entry.
C20_UsedOnlyAfterExpiry ==
  /\ [][InvertedUse]_vars
  /\ [][\A c \in Callers :
          (/\ lk[c].pc = "load" /\ lk'[c] # lk[c]
           /\ cache[lk[c].storage] # NoEntry
           /\ now <= cache[lk[c].storage].valid_till)
          => (lk'[c].pc = "loaded" /\ lk'[c].rows = db[lk[c].storage])]_vars

\* C20 amended: the cache is used only after expiry, and every lookup made
\* at now <= valid_till (or without an entry) attempts the load; it
\* reinstalls the entry when the load succeeds and leaves the cache and the
\* query counter as they are when the load fails.
C20_UsedOnlyAfterExpiryUnlessLoadFails ==
  /\ [][InvertedUse]_vars
  /\ [][\A c \in Callers :
          (lk[c].pc = "load" /\ lk'[c] # lk[c])
          => \/ lk'[c].pc = "loaded" /\ lk'[c].rows = db[lk[c].storage]
             \/ /\ lk'[c] = IdleLookup
                /\ cache' = cache /\ queryCount' = queryCount]_vars

\* the entry was loaded twice while it was fresh, its valid_till has passed,
\* the database has changed since, and a lookup is being answered from it
C20_Witness ==
  \E c \in Callers :
    /\ queryCount = 2
    /\ lk[c].pc = "filter" /\ lk[c].guard
    /\ Expired(c)
    /\ cache[lk[c].storage].access # db[lk[c].storage]

\* entries of the registry whose sink is the one of session s
EntriesOf(s) == {e \in registry : e.sink = s}

\* session s leaves its receive loop and returns
Ends(s) == spc[s] = "Established" /\ spc'[s] = "closed"

\* C21: the registry holds exactly one entry for each session in its receive
\* loop, filed under the user the session authenticated as, and none for a
\* session in the handshake or ended; when a session ends only its own entry
\* is removed, the entries of the other sessions of that user stay.
C21_RegistryMatchesSessions ==
  /\ [](\A s \in Sessions :
          IF spc[s] = "Established"
            THEN /\ EntriesOf(s) = {Entry(s)}
                 /\ <<username[s], password[s]>> \in ValidCreds
            ELSE EntriesOf(s) = {})
  /\ [][\A s \in Sessions :
          Ends(s) =>
            /\ Entry(s) \in registry
            /\ registry' = registry \ {Entry(s)}
            /\ \A t \in Sessions \ {s} :
                 (spc[t] = "Established" /\ username[t] = username[s])
                   => (Entry(t) \in registry' /\ t \in Registered(username[t])')]_vars

\* two sessions of alice were registered; the first has ended and only the
\* entry of the second is left
C21_Witness ==
  /\ spc[1] = "closed"
  /\ spc[2] = "Established"
  /\ username[2] = "alice"
  /\ registry = {Entry(2)}
  /\ nextConnId = 2

\* positions of the rows of an access list whose root is a prefix of path
MatchingRows(rows, path) == {i \in DOMAIN rows : IsPrefix(rows[i].root, path)}

\* position of the j-th matching row
NthMatch(rows, path, j) ==
  CHOOSE i \in MatchingRows(rows, path) :
    Cardinality({k \in MatchingRows(rows, path) : k < i}) = j - 1

\* us names the user of every matching row, one per row, in row order
OnePerRow(us, rows, path) ==
  /\ Len(us) = Cardinality(MatchingRows(rows, path))
  /\ \A j \in DOMAIN us : us[j] = rows[NthMatch(rows, path, j)].user

\* number of matching rows of user u
RowsOf(rows, path, u) ==
  Cardinality({i \in MatchingRows(rows, path) : rows[i].user = u})

\* number of send_to_user calls for user u still to make
CallsLeft(us, u) == Cardinality({i \in DOMAIN us : us[i] = u})

\* number of notifications of event ev waiting on a sink
Waiting(q, ev) == Cardinality({i \in DOMAIN q : q[i] = [body |-> NOTIFY, ev |-> ev]})

====
